---- MODULE Spec2Model ----
(***************************************************************************)
(* Model of the Jules integration: the session API client                  *)
(* (src/src/julesClient.ts), its session cache, and the MCP bridge server  *)
(* (src/src/mcp/BridgeServer.ts).                                          *)
(*                                                                         *)
(* The repository holds several revisions of the client.  The one the      *)
(* panel and the bridge import ('../julesClient') is src/src/julesClient.ts*)
(* and it is the one modelled by the actions below.                        *)
(***************************************************************************)
EXTENDS Integers, Sequences, FiniteSets, TLC

\* ------------------------------------------------------------------ bounds
\* client operations (createSession / listSessions) started in one run
MaxCalls == 2
\* createSession calls the panel makes for one task
MaxAttempts == 3
\* file diffs of one session diff
MaxFiles == 2
\* input lines the bridge reads in one run
MaxLines == 2
\* sessions that exist on the remote before the client is constructed
MaxOld == 2
\* sessions the remote holds at most
MaxSessions == 2

\* ------------------------------------------------------------- vocabulary
\* JSON null as a response id
NullId == 0
\* ids carried by requests
ReqIds == {1, 2}

\* JsonRpcErrorCodes (src/mcp/types.ts is not part of the sources; the
\* values are the JSON-RPC 2.0 codes the specification fixes)
PARSE_ERROR == -32700
METHOD_NOT_FOUND == -32601
INVALID_PARAMS == -32602
INTERNAL_ERROR == -32603

VARIABLES
    apiKey,          \* TRUE when getApiKey() finds a credential
    activeSessions,  \* JulesClient._activeSessions, a Map in insertion order
    remote,          \* sessions that exist on the remote service, by id
    clock,           \* wall clock (new Date()), advanced by the remote creations
    calls,           \* client operations in flight, by call number
    nCalls,          \* number of client operations started so far
    returned,        \* outcome of the client operation that completed last
    posts,           \* number of POST /sessions requests sent
    reported,        \* ids that a merged remote snapshot has contained
    created,         \* ids that createSession has inserted in the cache
    lines,           \* input lines the bridge has received, with their position
    output,          \* lines written to stdout, in order
    panel,           \* JulesPanel: its view, its polling timer, the task it handles
    git              \* the working tree and the branches of the workspace repository

vars == <<apiKey, activeSessions, remote, clock, calls, nCalls, returned, posts,
          reported, created, lines, output, panel, git>>

clientVars == <<apiKey, activeSessions, remote, clock, calls, nCalls, returned, posts,
                reported, created>>
bridgeVars == <<lines, output>>
hostVars == <<panel, git>>

\* ------------------------------------------------------------ Map helpers
\* Map.has
MapHas(m, id) == \E i \in 1..Len(m) : m[i].id = id

\* ids of the entries of a Map
MapIds(m) == {m[i].id : i \in 1..Len(m)}

\* Map.set: an existing key keeps its position and takes the new value, a
\* new key is appended
MapSet(m, s) ==
    IF MapHas(m, s.id)
    THEN [i \in 1..Len(m) |-> IF m[i].id = s.id THEN s ELSE m[i]]
    ELSE Append(m, s)

\* for (const session of sessions) map.set(session.id, session), on an
\* emptied Map
RECURSIVE MapFill(_, _)
MapFill(m, sessions) ==
    IF sessions = <<>> THEN m
    ELSE MapFill(MapSet(m, Head(sessions)), Tail(sessions))

\* Array.prototype.sort with (a, b) => time(b) - time(a): stable, newest first
RECURSIVE InsertByDate(_, _)
InsertByDate(sorted, s) ==
    IF sorted = <<>> THEN <<s>>
    ELSE IF Head(sorted).createdAt >= s.createdAt
         THEN <<Head(sorted)>> \o InsertByDate(Tail(sorted), s)
         ELSE <<s>> \o sorted

RECURSIVE SortNewestFirst(_)
SortNewestFirst(sessions) ==
    IF sessions = <<>> THEN <<>>
    ELSE InsertByDate(SortNewestFirst(SubSeq(sessions, 1, Len(sessions) - 1)),
                      sessions[Len(sessions)])

\* ------------------------------------------------------------ the client
\* the body of a 404 that means the repository is not accessible
NotFoundBody == "Requested entity was not found"
Bodies == {NotFoundBody, "quota exceeded"}
\* non-2xx statuses the remote answers a create request with
ErrorStatuses == {404, 429, 503}
\* non-2xx statuses the remote answers a read request with
ReadErrorStatuses == {429, 503}

NoResp == [kind |-> "none", status |-> 0, body |-> "", id |-> 0, sessions |-> <<>>]
NoErr == [type |-> "none", statusCode |-> 0, message |-> "", owner |-> "", repo |-> ""]

\* new JulesApiError(message, statusCode): statusCode 0 stands for undefined
JulesApiError(message, statusCode) ==
    [NoErr EXCEPT !.type = "JulesApiError", !.statusCode = statusCode,
                  !.message = message]

\* new ProjectNotInitializedError(owner, repo)
ProjectNotInitializedError(owner, repo) ==
    [NoErr EXCEPT !.type = "ProjectNotInitializedError",
                  !.message = "Jules does not have access to " \o owner \o "/"
                                 \o repo \o ".",
                  !.owner = owner, !.repo = repo]

\* the repositories (owner, repo) createSession is called for
Sources == {<<"octo", "app">>, <<"acme", "lib">>}

\* the repository gatherContext() finds in the workspace
WorkspaceSource == <<"octo", "app">>
\* the record of a completed client operation: its outcome, and what the
\* cache held (before), which ids remote snapshots had contained (seen) and
\* which ids the merged snapshot contains (snap) when it completed
Return(op, caller, ok, result, err, snap) ==
    [op |-> op, caller |-> caller, ok |-> ok, result |-> result, err |-> err,
     before |-> MapIds(activeSessions), seen |-> reported, snap |-> snap]

NoReturn == [op |-> "none", caller |-> 0, ok |-> FALSE, result |-> 0, err |-> NoErr,
             before |-> {}, seen |-> {}, snap |-> {}]

\* sanitizeApiError: the message depends on the status code only
sanitizeApiError(statusCode) ==
    CASE statusCode = 400 -> "Invalid request. Please check your repository configuration."
      [] statusCode = 401 -> "Authentication failed. Please verify your API key is correct."
      [] statusCode = 403 -> "Access denied. Check your Jules permissions."
      [] statusCode = 404 -> "Repository not found in Jules."
      [] statusCode = 408 -> "Request timed out. Please try again."
      [] statusCode = 429 -> "Rate limit exceeded. Please try again later."
      [] statusCode = 500 -> "Jules API error. Please try again."
      [] statusCode = 503 -> "Jules service is temporarily unavailable."
      [] OTHER -> "API request failed with status"

\* a session record that has no state member
NoState == "<undefined>"

\* the state strings the remote may send, each in three spellings with the
\* upper-case one first; the last two are outside the documented vocabulary
Spellings ==
    {<<"QUEUED", "queued", "Queued">>,
     <<"PAUSED", "paused", "Paused">>,
     <<"PLANNING", "planning", "Planning">>,
     <<"WAITING_FOR_PLAN_APPROVAL", "waiting_for_plan_approval", "Waiting_For_Plan_Approval">>,
     <<"IN_PROGRESS", "in_progress", "In_Progress">>,
     <<"COMPLETED", "completed", "Completed">>,
     <<"FINISHED", "finished", "Finished">>,
     <<"FAILED", "failed", "Failed">>,
     <<"ERROR", "error", "Error">>,
     <<"CANCELLED", "cancelled", "Cancelled">>,
     <<"CANCELED", "canceled", "Canceled">>,
     <<"ARCHIVED", "archived", "Archived">>,
     <<"STATE_UNSPECIFIED", "state_unspecified", "State_Unspecified">>}

\* every state value a session record may carry: the spellings, the empty
\* string, and no state at all
StateInputs ==
    UNION {{t[1], t[2], t[3]} : t \in Spellings} \cup {"", NoState}

\* toUpperCase that leaves the string as it is
toUpperCase_asIs(str) == str

\* String.prototype.toUpperCase on the strings above
toUpperCase(str) ==
    IF \E t \in Spellings : str \in {t[2], t[3]}
    THEN (CHOOSE t \in Spellings : str \in {t[2], t[3]})[1]
    ELSE str

\* apiSession.state || ''
StateOrEmpty(state) == IF state = NoState THEN "" ELSE state

\* parseApiSession, the state mapping: switch on the upper-cased state
StatusOfState(state) ==
    CASE state \in {"COMPLETED", "FINISHED"} -> "completed"
      [] state \in {"IN_PROGRESS", "PLANNING", "WAITING_FOR_PLAN_APPROVAL"} -> "running"
      [] state \in {"FAILED", "ERROR"} -> "failed"
      [] state \in {"CANCELLED", "CANCELED"} -> "cancelled"
      [] OTHER -> "pending"

\* parseApiSession: a remote record becomes a SessionStatus
parseApiSession(apiSession) ==
    [id |-> apiSession.id,
     status |-> StatusOfState(toUpperCase(StateOrEmpty(apiSession.state))),
     createdAt |-> apiSession.createTime]

\* sessions.map(s => this.parseApiSession(s))
ParseAll(apiSessions) ==
    [i \in 1..Len(apiSessions) |-> parseApiSession(apiSessions[i])]

\* ids of a sequence of session records
IdsOf(sessions) == {sessions[i].id : i \in 1..Len(sessions)}

\* addSession that stores nothing
addSession_skip(cache, session) == cache

\* JulesClient.addSession
addSession(cache, session) == MapSet(cache, session)

\* _updateCache that keeps an unchanged cache on an empty snapshot and keeps
\* the cached sessions the snapshot omits
_updateCache_keepLocal(cache, sessions) ==
    IF sessions = <<>> /\ cache # <<>>
    THEN cache
    ELSE MapFill(<<>>, SortNewestFirst(
             sessions \o SelectSeq(cache, LAMBDA s : s.id \notin IdsOf(sessions))))

\* _updateCache that adds the sorted snapshot to what the cache holds, without
\* clearing it
_updateCache_append(cache, sessions) == cache \o SortNewestFirst(sessions)

\* JulesClient._updateCache: sort newest first, clear, refill
_updateCache(cache, sessions) == MapFill(<<>>, SortNewestFirst(sessions))

\* the remote records with the given ids, in the remote's order (oldest first)
RECURSIVE Listing(_, _)
Listing(ids, n) ==
    IF n = 0 THEN <<>>
    ELSE Listing(ids, n - 1) \o (IF n \in ids THEN <<remote[n]>> ELSE <<>>)

\* a client operation that has sent its request; `attempt` counts the requests
\* the operation has sent so far, `arg` is the
\* session or the repository it is called for (0: none)
NewCall(op, caller) ==
    [op |-> op, pc |-> "fetch", caller |-> caller, resp |-> NoResp, attempt |-> 1,
     arg |-> 0]

\* an operation on one session: cancelSession(id), getThoughtSignatures(id)
NewCallOn(op, id) == [NewCall(op, 0) EXCEPT !.arg = id]

\* createSession(owner, repo, ...) that has sent its POST
NewCreate(caller, source) == [NewCall("create", caller) EXCEPT !.arg = source]

\* the calls in flight without call c
Without(c) == [k \in DOMAIN calls \ {c} |-> calls[k]]

\* the panel before its view is resolved: no timer, no task.  `timers` are the
\* intervals setInterval has created and clearInterval has not cleared,
\* `pollingInterval` the one the panel holds (0: undefined), `last` the
\* polling entry point that ran last, `shown` the sessions of the last
\* sessionsUpdated message; `stage` is where the task the user submitted is,
\* `attempts` the createSession calls made for it and `sessions` the remote
\* sessions these calls have created.
NoPanel ==
    [view |-> "none", pollingInterval |-> 0, timers |-> {}, last |-> "none",
     shown |-> {}, stage |-> "idle", attempts |-> 0, sessions |-> {}]

\* no ApplyResult yet
NoResult == [success |-> FALSE, message |-> "", conflictFiles |-> <<>>]

\* the repository before applySessionDiff is called: a clean tree on the
\* branch main, no side branch, no commit.  `start` is the repository as the
\* call found it, `log` the outcome of each file diff of the call and
\* `mutating` the number of mutating git commands the call has run.
NoGit ==
    [pc |-> "idle", dirty |-> FALSE, branch |-> "main", branches |-> {"main"},
     changed |-> {}, commits |-> {}, sessionId |-> "", todo |-> <<>>,
     failedFiles |-> <<>>, result |-> NoResult, log |-> <<>>, mutating |-> 0,
     start |-> [dirty |-> FALSE, branch |-> "main", branches |-> {"main"},
                changed |-> {}, commits |-> {}]]

\* getApiKey() of secrets.ts throws when no credential is found; it is awaited
\* outside the try blocks of the client, so the Error reaches the caller as is
KeyNotFound == [NoErr EXCEPT !.type = "Error", !.message = "Jules API key not found."]

Init ==
    /\ apiKey \in BOOLEAN
    /\ activeSessions = <<>>
    /\ \E n \in 0..MaxOld :
          /\ remote = [i \in 1..n |-> [id |-> i, state |-> "QUEUED", createTime |-> i]]
          /\ clock = n + 1
    /\ calls = <<>>
    /\ nCalls = 0
    /\ returned = NoReturn
    /\ posts = 0
    /\ reported = {}
    /\ created = {}
    /\ lines = <<>>
    /\ output = <<>>
    /\ panel = NoPanel
    /\ git = NoGit

\* the credential is stored or removed (setApiKey / deleteApiKey)
SetApiKey ==
    /\ apiKey' = ~apiKey
    /\ UNCHANGED <<activeSessions, remote, clock, calls, nCalls, returned, posts,
                   reported, created>>
    /\ UNCHANGED <<bridgeVars, hostVars>>

\* createSession(owner, repo, ...) up to its network suspension, called by the
\* panel or another direct caller: the credential is read and POST /sessions
\* is sent
CreateBeginFor(source) ==
    /\ nCalls < MaxCalls
    /\ nCalls' = nCalls + 1
    /\ IF apiKey
       THEN /\ calls' = calls @@ (nCalls + 1 :> NewCreate(0, source))
            /\ posts' = posts + 1
            /\ UNCHANGED returned
       ELSE /\ returned' = Return("create", 0, FALSE, 0, KeyNotFound, {})
            /\ UNCHANGED <<calls, posts>>
    /\ UNCHANGED <<apiKey, activeSessions, remote, clock, reported, created>>
    /\ UNCHANGED <<bridgeVars, hostVars>>

\* the panel starts a session for a task in the repository of the workspace
CreateBegin == CreateBeginFor(WorkspaceSource)

\* the panel tests the access to the repository the setup wizard names
CheckRepoAccess == \E source \in Sources : CreateBeginFor(source)

\* createSession of JulesClient and of the standalone JulesClientNode
CreateOps == {"create", "createNode"}

\* the remote creates the session and answers the POST
RemoteCreateOk(c) ==
    /\ calls[c].op \in CreateOps /\ calls[c].pc = "fetch"
    /\ Len(remote) < MaxSessions
    /\ remote' = Append(remote, [id |-> Len(remote) + 1, state |-> "QUEUED",
                                 createTime |-> clock])
    /\ clock' = clock + 1
    /\ calls' = [calls EXCEPT ![c].pc = "resp",
                              ![c].resp = [NoResp EXCEPT !.kind = "ok",
                                                         !.status = 200,
                                                         !.id = Len(remote) + 1]]
    /\ UNCHANGED <<apiKey, activeSessions, nCalls, returned, posts, reported, created>>
    /\ UNCHANGED <<bridgeVars, hostVars>>

\* the POST fails: a non-2xx answer, the 30 s abort, a transport failure, or
\* a 2xx answer whose body is not JSON
RemoteCreateFail(c) ==
    /\ calls[c].op \in CreateOps /\ calls[c].pc = "fetch"
    /\ \E r \in [kind : {"http"}, status : ErrorStatuses, body : Bodies,
                 id : {0}, sessions : {<<>>}]
             \cup {[NoResp EXCEPT !.kind = k] : k \in {"timeout", "network", "badbody"}} :
          calls' = [calls EXCEPT ![c].pc = "resp", ![c].resp = r]
    /\ UNCHANGED <<apiKey, activeSessions, remote, clock, nCalls, returned, posts,
                   reported, created>>
    /\ UNCHANGED <<bridgeVars, hostVars>>

\* the error of createSession that takes every 404 for a repository without
\* access
CreateError_any404(resp, source) ==
    CASE resp.kind = "http" /\ resp.status = 404 ->
            ProjectNotInitializedError(source[1], source[2])
      [] resp.kind = "http" /\ resp.status # 404 ->
            JulesApiError(sanitizeApiError(resp.status), resp.status)
      [] resp.kind = "timeout" ->
            JulesApiError("Request to Jules API timed out.", 408)
      [] OTHER ->
            JulesApiError("An unexpected error occurred while creating Jules session", 0)

\* the error createSession(owner, repo, ...) throws for a failed POST
CreateError(resp, source) ==
    CASE resp.kind = "http" /\ resp.status = 404 /\ resp.body = NotFoundBody ->
            ProjectNotInitializedError(source[1], source[2])
      [] resp.kind = "http" /\ ~(resp.status = 404 /\ resp.body = NotFoundBody) ->
            JulesApiError(sanitizeApiError(resp.status), resp.status)
      [] resp.kind = "timeout" ->
            JulesApiError("Request to Jules API timed out.", 408)
      [] OTHER ->
            JulesApiError("An unexpected error occurred while creating Jules session", 0)

\* a failure the retry contract calls retryable: a transport failure, a
\* timeout, HTTP 429 or HTTP 503
Retryable(resp) ==
    \/ resp.kind \in {"network", "timeout"}
    \/ resp.kind = "http" /\ resp.status \in {429, 503}

\* createSession that sends its request again after a retryable failure, up
\* to three requests
createSessionResends_retryable(resp, attempt) == Retryable(resp) /\ attempt < 3

\* whether createSession sends its request again after an answer: it has no
\* loop, and its catch throws for every failure
createSessionResends(resp, attempt) == FALSE

\* what createSession does with the answer: the session is stored in the cache
\* and returned, or the error is thrown
CreateOutcome(c) ==
    IF calls[c].resp.kind = "ok"
    THEN Return("create", calls[c].caller, TRUE, calls[c].resp.id, NoErr, {})
    ELSE Return("create", calls[c].caller, FALSE, 0, CreateError(calls[c].resp, calls[c].arg), {})

\* createSession goes on after the answer of call c with a further request
Resent(c) == createSessionResends(calls[c].resp, calls[c].attempt)

CreateEffect(c) ==
    /\ calls[c].op = "create" /\ calls[c].pc = "resp"
    /\ IF Resent(c)
       THEN /\ calls' = [calls EXCEPT ![c].pc = "fetch", ![c].resp = NoResp,
                                      ![c].attempt = @ + 1]
            /\ posts' = posts + 1
            /\ UNCHANGED <<activeSessions, created>>
       ELSE /\ calls' = Without(c)
            /\ UNCHANGED posts
            /\ IF calls[c].resp.kind = "ok"
               THEN /\ activeSessions' = addSession(activeSessions,
                           [id |-> calls[c].resp.id, status |-> "pending",
                            createdAt |-> clock])
                    /\ created' = created \cup {calls[c].resp.id}
               ELSE UNCHANGED <<activeSessions, created>>
    /\ UNCHANGED <<apiKey, remote, clock, nCalls, reported>>

\* createSession of a direct caller completes
CreateComplete(c) ==
    /\ c \in DOMAIN calls
    /\ calls[c].caller = 0
    /\ CreateEffect(c)
    /\ returned' = IF Resent(c) THEN returned ELSE CreateOutcome(c)
    /\ UNCHANGED <<bridgeVars, hostVars>>

\* ------------------------------------------------- JulesClientNode
\* error.message of the failure fetch or response.json() raises
CauseMessage(kind) ==
    IF kind = "badbody" THEN "Unexpected token < in JSON at position 0"
    ELSE "fetch failed"

\* the error JulesClientNode.createSession throws for a failed POST
NodeCreateError(resp, source) ==
    CASE resp.kind = "http" /\ resp.status = 404 /\ resp.body = NotFoundBody ->
            ProjectNotInitializedError(source[1], source[2])
      [] resp.kind = "http" /\ ~(resp.status = 404 /\ resp.body = NotFoundBody) ->
            JulesApiError("API Request failed: " \o resp.body, resp.status)
      [] resp.kind = "timeout" ->
            JulesApiError("Request timed out", 408)
      [] OTHER ->
            JulesApiError("Unexpected error: " \o CauseMessage(resp.kind), 0)

\* JulesClientNode.createSession up to its network suspension; getApiKey of
\* secretsNode returns undefined when no environment variable holds a key
NodeCreateBegin ==
    /\ nCalls < MaxCalls
    /\ nCalls' = nCalls + 1
    /\ IF apiKey
       THEN /\ calls' = calls @@
                  (nCalls + 1 :> [NewCreate(0, WorkspaceSource) EXCEPT !.op = "createNode"])
            /\ posts' = posts + 1
            /\ UNCHANGED returned
       ELSE /\ returned' = Return("createNode", 0, FALSE, 0,
                              JulesApiError("Jules API key is missing. Please set JULES_API_KEY environment variable.", 401),
                              {})
            /\ UNCHANGED <<calls, posts>>
    /\ UNCHANGED <<apiKey, activeSessions, remote, clock, reported, created>>
    /\ UNCHANGED <<bridgeVars, hostVars>>

\* JulesClientNode.createSession completes: it returns the session of the
\* answer or throws; it keeps no cache
NodeCreateComplete(c) ==
    /\ c \in DOMAIN calls
    /\ calls[c].op = "createNode" /\ calls[c].pc = "resp"
    /\ calls' = Without(c)
    /\ returned' = IF calls[c].resp.kind = "ok"
                   THEN Return("createNode", 0, TRUE, calls[c].resp.id, NoErr, {})
                   ELSE Return("createNode", 0, FALSE, 0,
                               NodeCreateError(calls[c].resp, calls[c].arg), {})
    /\ UNCHANGED <<apiKey, activeSessions, remote, clock, nCalls, posts, reported,
                   created>>
    /\ UNCHANGED <<bridgeVars, hostVars>>

\* listSessions up to its network suspension
ListBegin ==
    /\ nCalls < MaxCalls
    /\ nCalls' = nCalls + 1
    /\ IF apiKey
       THEN /\ calls' = calls @@ (nCalls + 1 :> NewCall("list", 0))
            /\ UNCHANGED returned
       ELSE /\ returned' = Return("list", 0, FALSE, 0, KeyNotFound, {})
            /\ UNCHANGED calls
    /\ UNCHANGED <<apiKey, activeSessions, remote, clock, posts, reported, created>>
    /\ UNCHANGED <<bridgeVars, hostVars>>

\* the remote answers GET /sessions with the sessions it has indexed so far
\* (any part of the sessions that exist), or the request fails
RemoteList(c) ==
    /\ calls[c].op = "list" /\ calls[c].pc = "fetch"
    /\ \/ \E ids \in SUBSET (1..Len(remote)) :
             calls' = [calls EXCEPT ![c].pc = "resp",
                          ![c].resp = [NoResp EXCEPT !.kind = "ok", !.status = 200,
                                          !.sessions = Listing(ids, Len(remote))]]
       \/ \E r \in {[NoResp EXCEPT !.kind = "http", !.status = st] : st \in ReadErrorStatuses}
                    \cup {[NoResp EXCEPT !.kind = k] : k \in {"network", "badbody"}} :
             calls' = [calls EXCEPT ![c].pc = "resp", ![c].resp = r]
    /\ UNCHANGED <<apiKey, activeSessions, remote, clock, nCalls, returned, posts,
                   reported, created>>
    /\ UNCHANGED <<bridgeVars, hostVars>>

\* the remote answers GET /sessions with every session that exists when the
\* request arrives
RemoteListAll(c) ==
    /\ calls[c].op = "list" /\ calls[c].pc = "fetch"
    /\ calls' = [calls EXCEPT ![c].pc = "resp",
                    ![c].resp = [NoResp EXCEPT !.kind = "ok", !.status = 200,
                                    !.sessions = remote]]
    /\ UNCHANGED <<apiKey, activeSessions, remote, clock, nCalls, returned, posts,
                   reported, created>>
    /\ UNCHANGED <<bridgeVars, hostVars>>

\* listSessions that empties the cache when the request fails
listSessions_clearOnFailure(cache, resp) ==
    IF resp.kind = "ok" THEN _updateCache(cache, ParseAll(resp.sessions)) ELSE <<>>

\* what listSessions leaves in the cache: the merged snapshot of a 2xx answer
\* with a JSON body; every failure is thrown before _updateCache is reached
listSessions(cache, resp) ==
    IF resp.kind = "ok" THEN _updateCache(cache, ParseAll(resp.sessions)) ELSE cache

\* listSessions after the answer: parse, _updateCache, return; any failure
\* becomes JulesApiError(500)
ListComplete(c) ==
    /\ c \in DOMAIN calls
    /\ calls[c].op = "list" /\ calls[c].pc = "resp"
    /\ calls' = Without(c)
    /\ activeSessions' = listSessions(activeSessions, calls[c].resp)
    /\ IF calls[c].resp.kind = "ok"
       THEN /\ reported' = reported \cup IdsOf(calls[c].resp.sessions)
            /\ returned' = Return("list", 0, TRUE, 0, NoErr, IdsOf(calls[c].resp.sessions))
       ELSE /\ returned' = Return("list", 0, FALSE, 0,
                                  JulesApiError("Failed to retrieve sessions from Jules API.",
                                                500),
                                  {})
            /\ UNCHANGED reported
    /\ UNCHANGED <<apiKey, remote, clock, nCalls, posts, created>>
    /\ UNCHANGED <<bridgeVars, hostVars>>

\* the remote moves a session forward in its lifecycle
RemoteProgress(id) ==
    /\ remote[id].state = "QUEUED"
    /\ remote' = [remote EXCEPT ![id].state = "IN_PROGRESS"]
    /\ UNCHANGED <<apiKey, activeSessions, clock, calls, nCalls, returned, posts,
                   reported, created>>
    /\ UNCHANGED <<bridgeVars, hostVars>>

\* the remote brings a running session to its end
RemoteFinish(id) ==
    /\ remote[id].state = "IN_PROGRESS"
    /\ \E st \in {"COMPLETED", "FAILED"} :
          remote' = [remote EXCEPT ![id].state = st]
    /\ UNCHANGED <<apiKey, activeSessions, clock, calls, nCalls, returned, posts,
                   reported, created>>
    /\ UNCHANGED <<bridgeVars, hostVars>>

\* non-2xx statuses the remote answers a cancel request with
CancelErrorStatuses == {404, 429}

\* Map.delete
MapDelete(m, id) == SelectSeq(m, LAMBDA s : s.id # id)

\* cancelSession(id) up to its network suspension: the credential is read and
\* POST /sessions/id:cancel is sent
CancelBegin(id) ==
    /\ nCalls < MaxCalls
    /\ nCalls' = nCalls + 1
    /\ IF apiKey
       THEN /\ calls' = calls @@ (nCalls + 1 :> NewCallOn("cancel", id))
            /\ UNCHANGED returned
       ELSE /\ returned' = Return("cancel", 0, FALSE, id, KeyNotFound, {})
            /\ UNCHANGED calls
    /\ UNCHANGED <<apiKey, activeSessions, remote, clock, posts, reported, created>>
    /\ UNCHANGED <<bridgeVars, hostVars>>

\* the remote cancels a session that has not ended and answers 2xx, or the
\* request fails: a non-2xx answer or a transport failure
RemoteCancel(c) ==
    /\ calls[c].op = "cancel" /\ calls[c].pc = "fetch"
    /\ \/ /\ calls[c].arg \in 1..Len(remote)
          /\ remote[calls[c].arg].state \in {"QUEUED", "IN_PROGRESS"}
          /\ remote' = [remote EXCEPT ![calls[c].arg].state = "CANCELLED"]
          /\ calls' = [calls EXCEPT ![c].pc = "resp",
                          ![c].resp = [NoResp EXCEPT !.kind = "ok", !.status = 200]]
       \/ /\ \E r \in {[NoResp EXCEPT !.kind = "http", !.status = st] :
                           st \in CancelErrorStatuses}
                      \cup {[NoResp EXCEPT !.kind = "network"]} :
                calls' = [calls EXCEPT ![c].pc = "resp", ![c].resp = r]
          /\ UNCHANGED remote
    /\ UNCHANGED <<apiKey, activeSessions, clock, nCalls, returned, posts, reported,
                   created>>
    /\ UNCHANGED <<bridgeVars, hostVars>>

\* the error cancelSession throws for a failed request
CancelError(resp) ==
    IF resp.kind = "http"
    THEN JulesApiError("Failed to cancel session: " \o sanitizeApiError(resp.status),
                       resp.status)
    ELSE JulesApiError("An unexpected error occurred while cancelling the session", 0)

\* cancelSession that removes the session from the cache whatever the answer
cancelSession_optimistic(cache, id, resp) == MapDelete(cache, id)

\* what cancelSession leaves in the cache: the entry is deleted after a 2xx
\* answer, and the throw of a failure comes before the delete
cancelSession(cache, id, resp) ==
    IF resp.kind = "ok" THEN MapDelete(cache, id) ELSE cache

\* cancelSession after the answer
CancelComplete(c) ==
    /\ c \in DOMAIN calls
    /\ calls[c].op = "cancel" /\ calls[c].pc = "resp"
    /\ calls' = Without(c)
    /\ activeSessions' = cancelSession(activeSessions, calls[c].arg, calls[c].resp)
    /\ returned' = IF calls[c].resp.kind = "ok"
                   THEN Return("cancel", 0, TRUE, calls[c].arg, NoErr, {})
                   ELSE Return("cancel", 0, FALSE, calls[c].arg,
                               CancelError(calls[c].resp), {})
    /\ UNCHANGED <<apiKey, remote, clock, nCalls, posts, reported, created>>
    /\ UNCHANGED <<bridgeVars, hostVars>>

\* ------------------------------------------------------------ GitContext
\* paths a session diff names
Paths == {"a.ts", "b.ts"}

\* FileDiff.status: 'renamed' stands for a status the switch of _applyFileDiff
\* has no case for
FileStatuses == {"modified", "deleted", "renamed"}

\* sessions whose diff is applied
DiffSessions == {"s1", "s2"}

\* the sequences of at most n file diffs
RECURSIVE FileSeqs(_)
FileSeqs(n) ==
    IF n = 0 THEN {<<>>}
    ELSE FileSeqs(n - 1) \cup
         {Append(fs, [path |-> p, status |-> st]) :
             fs \in FileSeqs(n - 1), p \in Paths, st \in FileStatuses}

\* `jules-${diff.sessionId.substring(0, 8)}`
TempBranch(sessionId) == "jules-" \o sessionId

\* a check of the working tree that takes every tree for clean
IsWorkingTreeClean_always(g) == TRUE

\* _isWorkingTreeClean: git status --porcelain prints nothing
IsWorkingTreeClean(g) == ~g.dirty /\ g.changed = {}

\* { success: false, message }
Failure(message) == [NoResult EXCEPT !.message = message]

\* the catch of the loop that reports the first failing file only
pushFailed_firstOnly(failedFiles, path) ==
    IF failedFiles = <<>> THEN <<path>> ELSE failedFiles

\* failedFiles.push(fileDiff.path)
pushFailed(failedFiles, path) == Append(failedFiles, path)

\* applySessionDiff after the loop over diff.files: with failed files it
\* returns them, otherwise it goes on to git add
AfterLoop(g) ==
    IF g.pc # "apply" \/ g.todo # <<>> THEN g
    ELSE IF Len(g.failedFiles) > 0
         THEN [g EXCEPT !.pc = "done",
                        !.result = [success |-> FALSE,
                                    message |-> "Failed to apply changes to file(s)",
                                    conflictFiles |-> g.failedFiles]]
         ELSE [g EXCEPT !.pc = "add"]

\* the user edits a file of the working tree, or commits or stashes the edits
UserEdit ==
    /\ git.pc = "idle"
    /\ git' = [git EXCEPT !.dirty = ~git.dirty]
    /\ UNCHANGED <<clientVars, bridgeVars, panel>>

\* applySessionDiff(diff) up to its first git command, git status
ApplyBegin(sessionId, files) ==
    /\ git.pc = "idle"
    /\ git' = [git EXCEPT !.pc = "status", !.sessionId = sessionId, !.todo = files,
                          !.failedFiles = <<>>, !.result = NoResult, !.log = <<>>,
                          !.mutating = 0,
                          !.start = [dirty |-> git.dirty, branch |-> git.branch,
                                     branches |-> git.branches,
                                     changed |-> git.changed,
                                     commits |-> git.commits]]
    /\ UNCHANGED <<clientVars, bridgeVars, panel>>

\* git status --porcelain ends: a dirty tree ends the call, a clean one
\* lets it go on to git checkout -b; a failure of git lands in the catch
GitStatus(ok) ==
    /\ git.pc = "status"
    /\ git' = IF ~ok
              THEN [git EXCEPT !.pc = "done", !.result = Failure("git status failed")]
              ELSE IF ~IsWorkingTreeClean(git)
              THEN [git EXCEPT !.pc = "done",
                       !.result = Failure("Working tree has uncommitted changes.")]
              ELSE [git EXCEPT !.pc = "checkout"]
    /\ UNCHANGED <<clientVars, bridgeVars, panel>>

\* git checkout -b jules-<session> ends: it creates the side branch and
\* switches to it, or fails (always when the branch exists)
GitCheckout(ok) ==
    /\ git.pc = "checkout"
    /\ ok => TempBranch(git.sessionId) \notin git.branches
    /\ git' = IF ok
              THEN AfterLoop([git EXCEPT !.pc = "apply",
                                 !.branch = TempBranch(git.sessionId),
                                 !.branches = @ \cup {TempBranch(git.sessionId)},
                                 !.mutating = @ + 1])
              ELSE [git EXCEPT !.pc = "done", !.mutating = @ + 1,
                               !.result = Failure("git checkout failed")]
    /\ UNCHANGED <<clientVars, bridgeVars, panel>>

\* _applyFileDiff of the next file diff ends: git rm or git apply --3way
\* changes the file, or fails and leaves the file as it was or with conflict
\* markers (touched); a status without a case runs no command
ApplyFile(ok, touched) ==
    /\ git.pc = "apply" /\ git.todo # <<>>
    /\ LET fileDiff == Head(git.todo)
           runs == fileDiff.status \in {"modified", "deleted"}
       IN  /\ ~runs => (ok /\ ~touched)
           /\ ok => ~touched
           /\ git' = AfterLoop(
                  [git EXCEPT !.todo = Tail(@),
                      !.mutating = IF runs THEN @ + 1 ELSE @,
                      !.changed = IF (runs /\ ok) \/ touched
                                  THEN @ \cup {fileDiff.path} ELSE @,
                      !.failedFiles = IF ok THEN @ ELSE pushFailed(@, fileDiff.path),
                      !.log = Append(@, [path |-> fileDiff.path, ok |-> ok])])
    /\ UNCHANGED <<clientVars, bridgeVars, panel>>

\* git add -A ends
GitAdd(ok) ==
    /\ git.pc = "add"
    /\ git' = IF ok
              THEN [git EXCEPT !.pc = "commit", !.mutating = @ + 1]
              ELSE [git EXCEPT !.pc = "done", !.mutating = @ + 1,
                               !.result = Failure("git add failed")]
    /\ UNCHANGED <<clientVars, bridgeVars, panel>>

\* git commit ends: the staged changes become one commit of the side
\* branch, or git fails (always when nothing is staged)
GitCommit(ok) ==
    /\ git.pc = "commit"
    /\ ok => git.changed # {}
    /\ git' = IF ok
              THEN [git EXCEPT !.pc = "done", !.mutating = @ + 1,
                       !.commits = @ \cup {<<git.branch, git.changed>>},
                       !.changed = {},
                       !.result = [success |-> TRUE,
                                   message |-> "Changes applied successfully",
                                   conflictFiles |-> <<>>]]
              ELSE [git EXCEPT !.pc = "done", !.mutating = @ + 1,
                               !.result = Failure("git commit failed")]
    /\ UNCHANGED <<clientVars, bridgeVars, panel>>

\* ------------------------------------------------------------ the bridge
\* methods a message may name
\* "unprintable" stands for a method that is a JSON object whose toString
\* member is not a function, such as {"toString":1}
Methods == {"initialize", "tools/list", "tools/call", "ping", "initialized",
            "notifications/cancelled", "no/such/method", "unprintable"}
\* params.name of a tools/call ("" when it is missing)
Tools == {"", "delegate_to_jules", "other_tool"}
\* arguments.task of a tools/call: missing, the empty string, a text, or a
\* value that is not a string (truthy, without a substring method)
Tasks == {"absent", "empty", "text", "number"}

NoMsg(kind) == [kind |-> kind, id |-> NullId, method |-> "", tool |-> "", task |-> "absent"]

\* the input lines: blank, not JSON, JSON that is no object (null, 5, "x"), a
\* JSON array, requests (with id) and notifications (without)
Messages ==
    {NoMsg(k) : k \in {"blank", "garbage", "nonobject", "array"}}
    \cup {[NoMsg("notification") EXCEPT !.method = m] :
             m \in {"initialized", "notifications/cancelled", "no/such/method", "unprintable"}}
    \cup {[NoMsg("request") EXCEPT !.id = i, !.method = m] :
             i \in ReqIds, m \in {"initialize", "tools/list", "ping", "no/such/method",
                                   "unprintable"}}
    \cup {[NoMsg("request") EXCEPT !.id = i, !.method = "tools/call", !.tool = t] :
             i \in ReqIds, t \in {"", "other_tool"}}
    \cup {[NoMsg("request") EXCEPT !.id = i, !.method = "tools/call",
                                   !.tool = "delegate_to_jules", !.task = t] :
             i \in ReqIds, t \in Tasks}

\* JSON.parse(line) succeeds
IsJson(msg) == msg.kind \notin {"blank", "garbage"}

\* the parsed value is an object: for null, a number or a string the test
\* 'id' in message raises a TypeError
IsObject(msg) == msg.kind \in {"array", "request", "notification"}

\* 'id' in message
HasId(msg) == msg.kind = "request"

ResultResponse(id, isError, text) ==
    [id |-> id, kind |-> "result", code |-> 0, isError |-> isError, text |-> text]

ErrorResponse(id, code, text) ==
    [id |-> id, kind |-> "error", code |-> code, isError |-> FALSE, text |-> text]

\* the template literal `${message.method}` of the log lines 173 and 220
\* converts the method to a string; the conversion raises a TypeError for an
\* object without a callable toString
Printable(msg) == msg.method # "unprintable"

\* marks a handler that ended by raising an exception
Thrown == [id |-> NullId, kind |-> "thrown", code |-> 0, isError |-> FALSE, text |-> ""]

\* marks a request whose response is not decided yet
Pending == [id |-> NullId, kind |-> "pending", code |-> 0, isError |-> FALSE, text |-> ""]

\* Parse Error answered with the code of Internal Error
ParseErrorResponse_internal == ErrorResponse(NullId, INTERNAL_ERROR, "Parse error: Invalid JSON")

\* the response of the catch of _handleIncomingLine
ParseErrorResponse == ErrorResponse(NullId, PARSE_ERROR, "Parse error: Invalid JSON")

\* the failure of a delegation answered as a JSON-RPC error
DelegateFailure_rpcError(id, message) == ErrorResponse(id, INTERNAL_ERROR, message)

\* the catch of _executeDelegateToJules: a tool result flagged isError
DelegateFailure(id, message) == ResultResponse(id, TRUE, message)

\* the tool result of a delegation that created a session
DelegateSuccess(id) == ResultResponse(id, FALSE, "Task delegated successfully.")

\* validation that takes only a missing task for missing
_executeDelegateToJules_undefinedOnly(id, task) ==
    IF task = "absent"
    THEN ErrorResponse(id, INVALID_PARAMS, "Missing required parameter: task")
    ELSE IF task = "number"
         THEN DelegateFailure(id, "input.task.substring is not a function")
         ELSE Pending

\* _executeDelegateToJules up to its first suspension: !input?.task holds for
\* a missing and for an empty task; task.substring raises inside the try for
\* a task that is no string; otherwise gatherContext() is awaited
_executeDelegateToJules(id, task) ==
    IF task \in {"absent", "empty"}
    THEN ErrorResponse(id, INVALID_PARAMS, "Missing required parameter: task")
    ELSE IF task = "number"
         THEN DelegateFailure(id, "input.task.substring is not a function")
         ELSE Pending

\* _handleToolCall
_handleToolCall(request) ==
    IF request.tool = ""
    THEN ErrorResponse(request.id, INVALID_PARAMS, "Missing tool name")
    ELSE IF request.tool = "delegate_to_jules"
         THEN _executeDelegateToJules(request.id, request.task)
         ELSE ErrorResponse(request.id, INVALID_PARAMS, "Unknown tool")

\* _handleRequest: the log line before the try, which raises for a method that
\* has no string form, then the dispatch on the method inside the catch-all
\* that turns an exception into Internal Error.  `raised` tells whether _handleInitialize
\* raised: of the handlers that run inside this try, it is the one with a
\* statement of its own that can (the call of the output channel, line 245);
\* _executeDelegateToJules catches what it raises itself.
_handleRequest(request, raised) ==
    CASE ~Printable(request) -> Thrown
      [] request.method = "initialize" ->
            IF raised THEN ErrorResponse(request.id, INTERNAL_ERROR, "Internal error")
            ELSE ResultResponse(request.id, FALSE, "initialize")
      [] request.method = "tools/list" -> ResultResponse(request.id, FALSE, "tools")
      [] request.method = "tools/call" -> _handleToolCall(request)
      [] request.method = "ping" -> ResultResponse(request.id, FALSE, "pong")
      [] OTHER -> ErrorResponse(request.id, METHOD_NOT_FOUND, "Method not found")

\* _handleNotification: logs the method and ends, or raises while logging it
_handleNotification(notification) ==
    IF Printable(notification) THEN Pending ELSE Thrown

\* _sendResponse: one line on stdout; `line` records which input line the
\* response answers
_sendResponse(out, response, line) ==
    Append(out, [id |-> response.id, kind |-> response.kind, code |-> response.code,
                 isError |-> response.isError, text |-> response.text, line |-> line])

\* an input line and the position of its handler: whether the handler raised,
\* whether it called createSession, and which step of the delegation failed
NewLine(msg, pc, resp, raised) ==
    [msg |-> msg, pc |-> pc, resp |-> resp, raised |-> raised, called |-> FALSE,
     fail |-> "none"]

\* _handleIncomingLine up to its first suspension.  A blank line is dropped.
\* A line that is not JSON, or whose value makes the `in` test raise, is
\* answered at once with Parse Error.  A request runs _handleRequest and a
\* notification _handleNotification; both are awaited inside the try, so an
\* exception that leaves either of them reaches the catch, which writes Parse
\* Error when the await resumes.  The response of a request is sent when the
\* await resumes.  A notification that ends normally leaves no output.
BridgeReceive(msg, raised) ==
    /\ Len(lines) < MaxLines
    /\ raised => (msg.kind = "request" /\ msg.method = "initialize")
    /\ LET l == Len(lines) + 1
           r == IF HasId(msg) THEN _handleRequest(msg, raised)
                ELSE _handleNotification(msg)
       IN  IF msg.kind = "blank"
           THEN /\ lines' = Append(lines, NewLine(msg, "done", Pending, FALSE))
                /\ UNCHANGED output
           ELSE IF ~IsJson(msg) \/ ~IsObject(msg)
           THEN /\ lines' = Append(lines, NewLine(msg, "done", Pending, FALSE))
                /\ output' = _sendResponse(output, ParseErrorResponse, l)
           ELSE IF r = Thrown
           THEN /\ lines' = Append(lines, NewLine(msg, "reply", ParseErrorResponse, TRUE))
                /\ UNCHANGED output
           ELSE IF HasId(msg)
           THEN /\ lines' = Append(lines,
                       NewLine(msg, IF r = Pending THEN "gather" ELSE "reply", r, raised))
                /\ UNCHANGED output
           ELSE /\ lines' = Append(lines, NewLine(msg, "done", Pending, FALSE))
                /\ UNCHANGED output
    /\ UNCHANGED <<clientVars, hostVars>>

\* gatherContext() and generatePrompt() end.  When they raised, the tool result
\* carries the error; otherwise createSession starts: the credential is read
\* and POST /sessions is sent
GatherDone(l, ok) ==
    /\ lines[l].pc = "gather"
    /\ IF ~ok
       THEN /\ lines' = [lines EXCEPT ![l].pc = "reply", ![l].fail = "context",
                            ![l].resp = DelegateFailure(lines[l].msg.id, "context")]
            /\ UNCHANGED <<calls, nCalls, posts>>
       ELSE /\ nCalls' = nCalls + 1
            /\ IF apiKey
               THEN /\ calls' = calls @@ (nCalls + 1 :> NewCreate(l, WorkspaceSource))
                    /\ posts' = posts + 1
                    /\ lines' = [lines EXCEPT ![l].pc = "create", ![l].called = TRUE]
               ELSE /\ lines' = [lines EXCEPT ![l].pc = "reply", ![l].called = TRUE,
                                    ![l].fail = "create",
                                    ![l].resp = DelegateFailure(lines[l].msg.id,
                                                                KeyNotFound.message)]
                    /\ UNCHANGED <<calls, posts>>
    /\ UNCHANGED <<apiKey, activeSessions, remote, clock, returned, reported, created, output>>
    /\ UNCHANGED hostVars

\* createSession called by the bridge completes and _executeDelegateToJules
\* builds the tool result
BridgeCreateDone(c) ==
    /\ c \in DOMAIN calls
    /\ calls[c].caller # 0
    /\ CreateEffect(c)
    /\ returned' = IF Resent(c) THEN returned ELSE CreateOutcome(c)
    /\ LET l == calls[c].caller
           o == CreateOutcome(c)
       IN  lines' = IF Resent(c) THEN lines
                    ELSE [lines EXCEPT ![l].pc = "reply",
                            ![l].fail = IF o.ok THEN "none" ELSE "create",
                            ![l].resp = IF o.ok THEN DelegateSuccess(lines[l].msg.id)
                                        ELSE DelegateFailure(lines[l].msg.id, o.err.message)]
    /\ UNCHANGED <<output, hostVars>>

\* the await of _handleRequest resumes and the response is written
BridgeSend(l) ==
    /\ lines[l].pc = "reply"
    /\ output' = _sendResponse(output, lines[l].resp, l)
    /\ lines' = [lines EXCEPT ![l].pc = "done"]
    /\ UNCHANGED <<clientVars, hostVars>>

Next ==
    \/ SetApiKey
    \/ CreateBegin
    \/ \E c \in DOMAIN calls : RemoteCreateOk(c)
    \/ \E c \in DOMAIN calls : RemoteCreateFail(c)
    \/ \E c \in DOMAIN calls : CreateComplete(c)
    \/ ListBegin
    \/ \E c \in DOMAIN calls : RemoteList(c)
    \/ \E c \in DOMAIN calls : ListComplete(c)
    \/ \E id \in 1..Len(remote) : RemoteProgress(id)

Spec == Init /\ [][Next]_vars

\* ------------------------------------------------- getThoughtSignatures
\* the activities lists the remote answers with; an activity is modelled by
\* the fields of a session, its id standing for its name
ActivityLists == {<<>>, <<[id |-> 1, state |-> "PLAN", createTime |-> 1]>>}

\* getThoughtSignatures(id) up to its network suspension: the credential is
\* read, outside the try, and GET /sessions/id/activities is sent
ActivitiesBegin(id) ==
    /\ nCalls < MaxCalls
    /\ nCalls' = nCalls + 1
    /\ IF apiKey
       THEN /\ calls' = calls @@ (nCalls + 1 :> NewCallOn("activities", id))
            /\ UNCHANGED returned
       ELSE /\ returned' = Return("activities", 0, FALSE, id, KeyNotFound, {})
            /\ UNCHANGED calls
    /\ UNCHANGED <<apiKey, activeSessions, remote, clock, posts, reported, created>>
    /\ UNCHANGED <<bridgeVars, hostVars>>

\* the remote answers the GET with the activities of a session it has, or the
\* request fails: a non-2xx answer, a transport failure, or a body that is
\* not JSON
RemoteActivities(c) ==
    /\ calls[c].op = "activities" /\ calls[c].pc = "fetch"
    /\ \E r \in {[NoResp EXCEPT !.kind = "ok", !.status = 200, !.sessions = acts] :
                    acts \in IF calls[c].arg \in 1..Len(remote)
                             THEN ActivityLists ELSE {}}
               \cup {[NoResp EXCEPT !.kind = "http", !.status = st] :
                         st \in ErrorStatuses}
               \cup {[NoResp EXCEPT !.kind = k] : k \in {"network", "badbody"}} :
          calls' = [calls EXCEPT ![c].pc = "resp", ![c].resp = r]
    /\ UNCHANGED <<apiKey, activeSessions, remote, clock, nCalls, returned, posts,
                   reported, created>>
    /\ UNCHANGED <<bridgeVars, hostVars>>

\* the signatures getThoughtSignatures returns for an answer: those of the
\* activities of a 2xx answer, none for a failure
ThoughtSignatures(resp) ==
    IF resp.kind = "ok" THEN {resp.sessions[i].id : i \in 1..Len(resp.sessions)} ELSE {}

\* getThoughtSignatures completes: it returns the list and leaves the cache
ActivitiesComplete(c) ==
    /\ c \in DOMAIN calls
    /\ calls[c].op = "activities" /\ calls[c].pc = "resp"
    /\ calls' = Without(c)
    /\ returned' = Return("activities", 0, TRUE, calls[c].arg, NoErr,
                          ThoughtSignatures(calls[c].resp))
    /\ UNCHANGED <<apiKey, activeSessions, remote, clock, nCalls, posts, reported,
                   created>>
    /\ UNCHANGED <<bridgeVars, hostVars>>

\* the standalone client of the MCP bridge process
NodeNext ==
    \/ NodeCreateBegin
    \/ \E c \in DOMAIN calls : RemoteCreateOk(c)
    \/ \E c \in DOMAIN calls : RemoteCreateFail(c)
    \/ \E c \in DOMAIN calls : NodeCreateComplete(c)

NodeSpec == Init /\ [][NodeNext]_vars

\* the reads of the client: the session list and the activities of a session
ActivitiesNext ==
    \/ SetApiKey
    \/ ListBegin
    \/ \E c \in DOMAIN calls : RemoteList(c)
    \/ \E c \in DOMAIN calls : ListComplete(c)
    \/ \E id \in 1..MaxSessions : ActivitiesBegin(id)
    \/ \E c \in DOMAIN calls : RemoteActivities(c)
    \/ \E c \in DOMAIN calls : ActivitiesComplete(c)

ActivitiesSpec == Init /\ [][ActivitiesNext]_vars

\* createSession and listSessions against a remote whose list is complete
RaceNext ==
    \/ CreateBegin
    \/ \E c \in DOMAIN calls : RemoteCreateOk(c)
    \/ \E c \in DOMAIN calls : RemoteCreateFail(c)
    \/ \E c \in DOMAIN calls : CreateComplete(c)
    \/ ListBegin
    \/ \E c \in DOMAIN calls : RemoteListAll(c)
    \/ \E c \in DOMAIN calls : ListComplete(c)

RaceSpec == Init /\ [][RaceNext]_vars

\* a client that holds a credential: sessions are created and listed
MergeInit ==
    /\ apiKey = TRUE
    /\ activeSessions = <<>>
    /\ \E n \in 0..MaxOld :
          /\ remote = [i \in 1..n |-> [id |-> i, state |-> "QUEUED", createTime |-> i]]
          /\ clock = n + 1
    /\ calls = <<>>
    /\ nCalls = 0
    /\ returned = NoReturn
    /\ posts = 0
    /\ reported = {}
    /\ created = {}
    /\ lines = <<>>
    /\ output = <<>>
    /\ panel = NoPanel
    /\ git = NoGit

MergeNext ==
    \/ CreateBegin
    \/ \E c \in DOMAIN calls : RemoteCreateOk(c)
    \/ \E c \in DOMAIN calls : CreateComplete(c)
    \/ ListBegin
    \/ \E c \in DOMAIN calls : RemoteList(c)
    \/ \E c \in DOMAIN calls : ListComplete(c)
    \/ \E id \in 1..Len(remote) : RemoteProgress(id)

MergeSpec == MergeInit /\ [][MergeNext]_vars

\* session diffs applied to the repository of the workspace
GitNext ==
    \/ UserEdit
    \/ \E sessionId \in DiffSessions, files \in FileSeqs(MaxFiles) :
          ApplyBegin(sessionId, files)
    \/ \E ok \in BOOLEAN : GitStatus(ok)
    \/ \E ok \in BOOLEAN : GitCheckout(ok)
    \/ \E ok \in BOOLEAN, touched \in BOOLEAN : ApplyFile(ok, touched)
    \/ \E ok \in BOOLEAN : GitAdd(ok)
    \/ \E ok \in BOOLEAN : GitCommit(ok)

\* the repository holds the branch main and perhaps the side branch an
\* earlier call for session s1 has left
GitInit ==
    /\ apiKey = TRUE
    /\ activeSessions = <<>>
    /\ remote = <<>>
    /\ clock = 1
    /\ calls = <<>>
    /\ nCalls = 0
    /\ returned = NoReturn
    /\ posts = 0
    /\ reported = {}
    /\ created = {}
    /\ lines = <<>>
    /\ output = <<>>
    /\ panel = NoPanel
    /\ \E bs \in {{"main"}, {"main", TempBranch("s1")}} :
          git = [NoGit EXCEPT !.branches = bs]

GitSpec == GitInit /\ [][GitNext]_vars

\* createSession called for the repositories the setup wizard names
RepoNext ==
    \/ SetApiKey
    \/ CheckRepoAccess
    \/ \E c \in DOMAIN calls : RemoteCreateOk(c)
    \/ \E c \in DOMAIN calls : RemoteCreateFail(c)
    \/ \E c \in DOMAIN calls : CreateComplete(c)

RepoSpec == Init /\ [][RepoNext]_vars

\* the client with all the operations on its cache, against a remote whose
\* sessions run to their end
ClientNext ==
    \/ Next
    \/ \E id \in 1..MaxSessions : CancelBegin(id)
    \/ \E c \in DOMAIN calls : RemoteCancel(c)
    \/ \E c \in DOMAIN calls : CancelComplete(c)
    \/ \E id \in 1..Len(remote) : RemoteFinish(id)

ClientSpec == Init /\ [][ClientNext]_vars

\* the state mapping applied to every state value: a remote that holds one
\* session, listed by the client
MapInit ==
    /\ apiKey = TRUE
    /\ activeSessions = <<>>
    /\ \E st \in StateInputs :
          remote = <<[id |-> 1, state |-> st, createTime |-> 1]>>
    /\ clock = 2
    /\ calls = <<>>
    /\ nCalls = 0
    /\ returned = NoReturn
    /\ posts = 0
    /\ reported = {}
    /\ created = {}
    /\ lines = <<>>
    /\ output = <<>>
    /\ panel = NoPanel
    /\ git = NoGit

MapNext ==
    \/ ListBegin
    \/ \E c \in DOMAIN calls : RemoteList(c)
    \/ \E c \in DOMAIN calls : ListComplete(c)

MapSpec == MapInit /\ [][MapNext]_vars

\* cancellations among refreshes: the operations of the panel on sessions
\* that exist already
CancelNext ==
    \/ SetApiKey
    \/ ListBegin
    \/ \E c \in DOMAIN calls : RemoteList(c)
    \/ \E c \in DOMAIN calls : ListComplete(c)
    \/ \E id \in 1..MaxSessions : CancelBegin(id)
    \/ \E c \in DOMAIN calls : RemoteCancel(c)
    \/ \E c \in DOMAIN calls : CancelComplete(c)

CancelSpec == Init /\ [][CancelNext]_vars

BridgeNext ==
    \/ \E msg \in Messages, raised \in BOOLEAN : BridgeReceive(msg, raised)
    \/ \E l \in 1..Len(lines), ok \in BOOLEAN : GatherDone(l, ok)
    \/ \E c \in DOMAIN calls : RemoteCreateOk(c)
    \/ \E c \in DOMAIN calls : RemoteCreateFail(c)
    \/ \E c \in DOMAIN calls : BridgeCreateDone(c)
    \/ \E l \in 1..Len(lines) : BridgeSend(l)

\* The bridge never lists sessions: it starts against a remote without any.
\* Its credential comes from the environment of the process and stays as it
\* is at the start.
BridgeInit == Init /\ remote = <<>>

BridgeSpec == BridgeInit /\ [][BridgeNext]_vars

\* Every suspended handler resumes: a response that is ready is written,
\* gatherContext ends, fetch ends (with an answer or with the 30 s abort) and
\* the continuation of createSession runs.
BridgeFairSpec ==
    /\ BridgeSpec
    /\ WF_vars(\E l \in 1..Len(lines) : BridgeSend(l))
    /\ WF_vars(\E l \in 1..Len(lines), ok \in BOOLEAN : GatherDone(l, ok))
    /\ WF_vars(\E c \in DOMAIN calls : RemoteCreateOk(c) \/ RemoteCreateFail(c))
    /\ WF_vars(\E c \in DOMAIN calls : BridgeCreateDone(c))

\* ------------------------------------------------------------ properties
\* the entries of the cache with the given id
Entries(id) == {i \in 1..Len(activeSessions) : activeSessions[i].id = id}

\* the operation that completed last is a listSessions that merged a snapshot
MergedSnapshot == returned.op = "list" /\ returned.ok

\* C1: once createSession has put a session in the cache, a listSessions whose
\* remote answer is an empty collection leaves every cached session in the
\* cache.
C1_EmptySnapshotKeepsCache ==
    (MergedSnapshot /\ returned.snap = {} /\ returned.before \cap created # {})
        => returned.before \subseteq MapIds(activeSessions)

\* C2: when createSession returns session id X, the cache holds exactly one
\* entry with id X and its status is pending, whether or not a remote snapshot
\* has contained X.
C2_CreateReturnsCached ==
    (returned.op = "create" /\ returned.ok)
        => /\ Cardinality(Entries(returned.result)) = 1
           /\ \A i \in Entries(returned.result) : activeSessions[i].status = "pending"

\* createSession has returned X before any merged snapshot contained X
C2_Witness ==
    /\ returned.op = "create" /\ returned.ok
    /\ returned.result \notin reported
    /\ \E i \in Entries(returned.result) : activeSessions[i].status = "pending"

\* C3: a session createSession inserted, which no remote snapshot has
\* contained, is still cached after the merge of a non-empty snapshot that
\* omits it.
C3_LocalOnlyPreserved ==
    (MergedSnapshot /\ returned.snap # {})
        => \A id \in (returned.before \cap created) \ reported :
              id \in MapIds(activeSessions)

Answers(l) == {k \in 1..Len(output) : output[k].line = l}

\* line l is a request (its message has an id)
IsRequest(l) == lines[l].msg.kind = "request"

\* line l is a tools/call of delegate_to_jules
IsDelegate(l) ==
    /\ IsRequest(l)
    /\ lines[l].msg.method = "tools/call"
    /\ lines[l].msg.tool = "delegate_to_jules"

\* the lines whose handler called createSession
CalledLines == {l \in 1..Len(lines) : lines[l].called}

\* C5: a line that parses to a message with an id gets exactly one response
\* line, none before its handler has finished and one after, and the response
\* carries the id of that request, however the handlers of several requests
\* interleave.
C5_OneResponsePerRequest ==
    \A l \in 1..Len(lines) :
        IsRequest(l) =>
            /\ Cardinality(Answers(l)) = IF lines[l].pc = "done" THEN 1 ELSE 0
            /\ \A k \in Answers(l) : output[k].id = lines[l].msg.id

\* a ping that arrived while a delegation was awaiting createSession was
\* answered first, and the delegation was answered after it
C5_Witness ==
    /\ Len(lines) = 2 /\ Len(output) = 2
    /\ IsDelegate(1) /\ lines[1].called
    /\ IsRequest(2) /\ lines[2].msg.method = "ping"
    /\ lines[1].msg.id # lines[2].msg.id
    /\ output[1].line = 2 /\ output[1].id = lines[2].msg.id
    /\ output[2].line = 1 /\ output[2].id = lines[1].msg.id

\* C6: a message without an id (a notification with a known or an unknown
\* method, or any other JSON object or array without id) causes no output
\* line: nothing is written for it and stdout holds no more lines than there
\* are other non-blank input lines.
C6_NotificationsSilent ==
    /\ \A l \in 1..Len(lines) :
          lines[l].msg.kind \in {"notification", "array"} =>
              Answers(l) = {}
    /\ Len(output) <= Cardinality({l \in 1..Len(lines) :
                          lines[l].msg.kind \notin {"notification", "array", "blank"}})

\* a notification with a known method and one with an unknown method have
\* been handled and nothing was written
C6_Witness ==
    /\ Len(lines) = 2
    /\ lines[1].msg.kind = "notification" /\ lines[1].msg.method = "initialized"
    /\ lines[2].msg.kind = "notification" /\ lines[2].msg.method = "no/such/method"
    /\ lines[2].pc = "done"
    /\ output = <<>>

Answered(l) ==
    /\ l <= Len(lines)
    /\ \E k \in Answers(l) :
          /\ output[k].id = lines[l].msg.id
          /\ lines[l].raised => (output[k].kind = "error" /\ output[k].code = INTERNAL_ERROR)

\* C8: every request is eventually answered under its id; when its handler
\* raised, the answer is an error with code -32603; this holds of every
\* request, those received after a handler raised included.
C8_EveryRequestAnswered ==
    \A l \in 1..MaxLines :
        (l <= Len(lines) /\ IsRequest(l)) ~> Answered(l)

\* a request whose handler raised was answered with -32603 under its id, and
\* the request received after it was answered too
C8_Witness ==
    /\ Len(lines) = 2 /\ Len(output) = 2
    /\ lines[1].raised
    /\ output[1].line = 1 /\ output[1].code = INTERNAL_ERROR
    /\ output[1].id = lines[1].msg.id
    /\ IsRequest(2) /\ output[2].line = 2 /\ output[2].id = lines[2].msg.id

C10_DelegationFailureIsToolResult ==
    \A l \in 1..Len(lines) :
        lines[l].fail # "none" =>
            /\ IsDelegate(l) /\ lines[l].msg.task = "text"
            /\ lines[l].pc \in {"reply", "done"}
            /\ lines[l].resp.kind = "result" /\ lines[l].resp.isError
            /\ lines[l].pc = "done" => Cardinality(Answers(l)) = 1
            /\ \A k \in Answers(l) :
                  /\ output[k].kind = "result"
                  /\ output[k].isError
                  /\ output[k].id = lines[l].msg.id

\* a delegation whose context gathering failed and one whose createSession
\* failed have both been answered
C10_Witness ==
    /\ Len(lines) = 2 /\ Len(output) = 2
    /\ lines[1].fail = "context" /\ lines[2].fail = "create"
    /\ lines[2].called
    /\ \A k \in 1..2 : output[k].kind = "result" /\ output[k].isError

\* ------------------------------------------------- retries and error kinds
\* call c returns to its caller in this step
Returns(c) == c \in DOMAIN calls /\ c \notin DOMAIN calls'

\* C11: a read call retries a retryable failure: it does not return on a
\* retryable failure of its first or second attempt, so that k < 3 such
\* failures followed by a success end in the success after k+1 attempts.
C11_RetryableFailureRetried ==
    [][\A c \in DOMAIN calls :
          (/\ calls[c].op = "list"
           /\ calls[c].pc = "resp"
           /\ Retryable(calls[c].resp)
           /\ calls[c].attempt < 3) => ~Returns(c)]_vars

\* C12: when a read call fails, the error its caller gets carries the status
\* code of the last failure observed, so that an exhausted 429 differs from an
\* exhausted 503.
C12_LastFailureSurfaced ==
    [][\A c \in DOMAIN calls :
          (/\ calls[c].op = "list"
           /\ calls[c].pc = "resp"
           /\ calls[c].resp.kind = "http"
           /\ Returns(c)) =>
              /\ returned'.op = "list" /\ ~returned'.ok
              /\ returned'.err.statusCode = calls[c].resp.status]_vars

Terminal == {"completed", "failed", "cancelled"}

\* C14: the status the cache holds for a session id never goes from a
\* terminal status (completed, failed, cancelled) to pending or running.
C14_TerminalStaysTerminal ==
    [][\A i \in 1..Len(activeSessions) : \A j \in 1..Len(activeSessions') :
          (/\ activeSessions[i].id = activeSessions'[j].id
           /\ activeSessions[i].status \in Terminal)
              => activeSessions'[j].status \in Terminal]_vars

\* C20: cancelSession(id) deletes id from the cache when, and only when, the
\* remote request succeeded, and leaves every other entry alone; when the
\* request failed (non-2xx, transport failure) or no credential was found, an
\* error is raised and the cache is exactly as it was.
C20_CancelRemovesOnSuccessOnly ==
    [][/\ \A c \in DOMAIN calls :
             (calls[c].op = "cancel" /\ Returns(c)) =>
                 /\ returned'.op = "cancel" /\ returned'.result = calls[c].arg
                 /\ IF calls[c].resp.kind = "ok"
                    THEN /\ returned'.ok
                         /\ calls[c].arg \notin MapIds(activeSessions')
                         /\ activeSessions' =
                               SelectSeq(activeSessions, LAMBDA s : s.id # calls[c].arg)
                    ELSE /\ ~returned'.ok /\ returned'.err.type # "none"
                         /\ activeSessions' = activeSessions
       /\ (returned' # returned /\ returned'.op = "cancel" /\ ~returned'.ok)
             => activeSessions' = activeSessions]_vars

\* a cancelSession of a cached session has failed on a non-2xx answer and the
\* session is still in the cache
C20_Witness ==
    /\ returned.op = "cancel" /\ ~returned.ok
    /\ returned.err.statusCode = 404
    /\ returned.result \in MapIds(activeSessions)

\* a cancelSession has succeeded and took one of two cached sessions away
C20_WitnessRemoved ==
    /\ returned.op = "cancel" /\ returned.ok
    /\ returned.result \in returned.before
    /\ MapIds(activeSessions) = returned.before \ {returned.result}
    /\ activeSessions # <<>>

\* ---------------------------------------------------------- state mapping
\* the spellings, in any letter case, of the given upper-case state names
Spelled(names) == UNION {{t[1], t[2], t[3]} : t \in {u \in Spellings : u[1] \in names}}

\* the status the mapping table assigns to a state value
TableStatus(raw) ==
    CASE raw \in Spelled({"QUEUED", "PAUSED"}) -> "pending"
      [] raw \in Spelled({"PLANNING", "WAITING_FOR_PLAN_APPROVAL", "IN_PROGRESS"}) -> "running"
      [] raw \in Spelled({"COMPLETED", "FINISHED"}) -> "completed"
      [] raw \in Spelled({"FAILED", "ERROR"}) -> "failed"
      [] raw \in Spelled({"CANCELLED", "CANCELED"}) -> "cancelled"
      [] OTHER -> "pending"

\* C15: the state mapping is total: a listing of a session with any state
\* string, in any letter case, or without state, never fails in the mapping,
\* and the status stored is the one of the table (QUEUED, PAUSED: pending;
\* PLANNING, WAITING_FOR_PLAN_APPROVAL, IN_PROGRESS: running; COMPLETED,
\* FINISHED: completed; FAILED, ERROR: failed; CANCELLED, CANCELED: cancelled;
\* anything else: pending).
C15_StateMappingTotal ==
    /\ \A i \in 1..Len(activeSessions) :
          /\ activeSessions[i].status \in
                {"pending", "running", "completed", "failed", "cancelled"}
          /\ activeSessions[i].status = TableStatus(remote[activeSessions[i].id].state)
    /\ \A c \in DOMAIN calls :
          (calls[c].op = "list" /\ calls[c].resp.kind = "ok") =>
              \A k \in 1..Len(calls[c].resp.sessions) :
                  parseApiSession(calls[c].resp.sessions[k]).status
                      = TableStatus(calls[c].resp.sessions[k].state)

\* a session whose state is spelled "finished" was listed and is cached as
\* completed
C15_Witness ==
    /\ returned.op = "list" /\ returned.ok
    /\ Len(remote) = 1 /\ remote[1].state = "finished"
    /\ Len(activeSessions) = 1 /\ activeSessions[1].status = "completed"

\* a session without state was listed and is cached as pending
C15_WitnessMissing ==
    /\ returned.op = "list" /\ returned.ok
    /\ Len(remote) = 1 /\ remote[1].state = NoState
    /\ Len(activeSessions) = 1 /\ activeSessions[1].status = "pending"

\* ------------------------------------------------------------- credential
\* C16: a createSession call that finds no API credential fails with the
\* Unauthenticated error (status 401), sends no request and leaves the cache
\* as it is.
C16_NoCredentialIs401 ==
    [][(~apiKey /\ nCalls' = nCalls + 1 /\ returned'.op = "create") =>
          /\ ~returned'.ok
          /\ returned'.err.type = "JulesApiError"
          /\ returned'.err.statusCode = 401
          /\ posts' = posts /\ calls' = calls
          /\ activeSessions' = activeSessions]_vars

\* C17: when createSession(owner, repo, ...) returns after a non-2xx answer to
\* its POST, a 404 whose body says the requested entity was not found gives a
\* ProjectNotInitializedError carrying exactly the owner and repo of the call,
\* and every other non-2xx answer gives a JulesApiError carrying the status code
\* of the answer and no repository.
C17_RepoAccessErrorDistinct ==
    [][\A c \in DOMAIN calls :
          (/\ calls[c].op = "create" /\ calls[c].pc = "resp"
           /\ calls[c].resp.kind = "http" /\ Returns(c)) =>
             /\ returned'.op = "create" /\ ~returned'.ok
             /\ IF calls[c].resp.status = 404 /\ calls[c].resp.body = NotFoundBody
                THEN /\ returned'.err.type = "ProjectNotInitializedError"
                     /\ returned'.err.owner = calls[c].arg[1]
                     /\ returned'.err.repo = calls[c].arg[2]
                ELSE /\ returned'.err.type = "JulesApiError"
                     /\ returned'.err.statusCode = calls[c].resp.status
                     /\ returned'.err.owner = "" /\ returned'.err.repo = ""]_vars

\* createSession for acme/lib has failed with the repository-access error that
\* names acme/lib, after a call that failed with the generic error of a 404
C17_Witness ==
    /\ returned.op = "create" /\ ~returned.ok
    /\ returned.err.type = "ProjectNotInitializedError"
    /\ returned.err.owner = "acme" /\ returned.err.repo = "lib"
    /\ nCalls = 2

\* --------------------------------------------------- surfaced messages
\* a non-2xx answer that is the entity-not-found 404
NotFound404(resp) == resp.status = 404 /\ resp.body = NotFoundBody

\* the error the client of call c throws for the answer resp
ClientError(c, resp) ==
    IF calls[c].op = "createNode"
    THEN NodeCreateError(resp, calls[c].arg)
    ELSE CreateError(resp, calls[c].arg)

\* the text the bridge and the panel show for an error
Surfaced(err) == "Error: " \o err.message

\* C18: when a create call returns after a non-2xx answer that is not the
\* entity-not-found 404, the surfaced message is the one the same call gives
\* for every other body with the same status code (the entity-not-found 404
\* excepted): the message does not depend on the body of the answer.
C18_MessageIndependentOfBody ==
    [][\A c \in DOMAIN calls :
          (/\ calls[c].op \in CreateOps /\ calls[c].pc = "resp"
           /\ calls[c].resp.kind = "http" /\ ~NotFound404(calls[c].resp)
           /\ Returns(c)) =>
             \A b \in Bodies :
                ~NotFound404([calls[c].resp EXCEPT !.body = b]) =>
                   Surfaced(returned'.err) =
                      Surfaced(ClientError(c, [calls[c].resp EXCEPT !.body = b]))]_vars

\* ---------------------------------------------------- best-effort reads
\* C19: getThoughtSignatures never raises and never changes the cache: every
\* call ends with a list, which is empty when the credential is missing, the
\* answer is not 2xx, the transport fails or the body is not JSON.
C19_ActivitiesNeverRaise ==
    [][/\ (returned' # returned /\ returned'.op = "activities") =>
             /\ returned'.ok
             /\ activeSessions' = activeSessions
       /\ \A c \in DOMAIN calls :
             (/\ calls[c].op = "activities" /\ calls[c].pc = "resp"
              /\ calls[c].resp.kind # "ok" /\ Returns(c)) => returned'.snap = {}]_vars

\* ------------------------------------------------------- stale merges
\* C23: when listSessions merges a snapshot that the remote took before
\* session S existed, and createSession has put S into the cache in the
\* meantime, S is still in the cache after the merge. (Under RaceSpec the
\* remote lists every session that exists, so a snapshot without S was taken
\* before S existed.)
C23_CreateSurvivesStaleMerge ==
    [][\A c \in DOMAIN calls :
          (/\ calls[c].op = "list" /\ calls[c].pc = "resp"
           /\ calls[c].resp.kind = "ok" /\ Returns(c)) =>
             \A id \in created \cap MapIds(activeSessions) :
                id \notin IdsOf(calls[c].resp.sessions) =>
                   MapHas(activeSessions', id)]_vars

C26_CancelledStaysCancelled ==
    [][\A c \in DOMAIN calls :
          (/\ returned.op = "cancel" /\ returned.ok
           /\ calls[c].op = "list" /\ calls[c].pc = "resp" /\ Returns(c)) =>
             \A i \in 1..Len(activeSessions') :
                activeSessions'[i].id = returned.result =>
                   activeSessions'[i].status \notin {"pending", "running"}]_vars

\* ------------------------------------------------------- failed reads
\* C28: a listSessions call that fails, because the credential is missing or
\* because the answer is a non-2xx status, a transport failure or a body that
\* is not JSON, ends with an error and leaves the cache as it was: the same
\* sessions with the same field values in the same order.
C28_FailedListKeepsCache ==
    [][/\ (~apiKey /\ nCalls' = nCalls + 1 /\ returned'.op = "list") =>
             /\ ~returned'.ok /\ returned'.err.type # "none"
             /\ activeSessions' = activeSessions
       /\ \A c \in DOMAIN calls :
             (/\ calls[c].op = "list" /\ calls[c].pc = "resp"
              /\ calls[c].resp.kind # "ok" /\ Returns(c)) =>
                /\ returned'.op = "list" /\ ~returned'.ok
                /\ returned'.err.type # "none"
                /\ activeSessions' = activeSessions]_vars

\* listSessions has failed on the answer to its request while the cache held
\* a session
C28_Witness ==
    /\ returned.op = "list" /\ ~returned.ok
    /\ returned.err.type = "JulesApiError"
    /\ activeSessions # <<>>

\* listSessions has failed for want of a credential while the cache held a
\* session
C28_WitnessNoKey ==
    /\ returned.op = "list" /\ ~returned.ok
    /\ returned.err.type = "Error"
    /\ activeSessions # <<>>

\* ------------------------------------------------------- parse errors
\* C29: every Parse Error response on stdout answers a line that is not valid
\* JSON: a line that JSON.parse accepts, be it a non-object value or a message
\* whose handling raises, never yields a Parse Error.
C29_ParseErrorOnlyForInvalidJson ==
    \A k \in 1..Len(output) :
        (output[k].kind = "error" /\ output[k].code = PARSE_ERROR) =>
            ~IsJson(lines[output[k].line].msg)

\* ------------------------------------------------------ applySessionDiff
\* the paths whose file diff failed to apply in the call
FailedPaths == {git.log[i].path : i \in {k \in 1..Len(git.log) : ~git.log[k].ok}}

\* the list as a set
SetOf(seq) == {seq[i] : i \in 1..Len(seq)}

\* C21: a call of applySessionDiff that found uncommitted changes in the
\* working tree has returned success=false and has run no mutating git
\* command: the current branch, the branches, the files of the working tree
\* and the commits are those the call found.
C21_DirtyTreeUntouched ==
    (git.pc = "done" /\ (git.start.dirty \/ git.start.changed # {})) =>
        /\ ~git.result.success
        /\ git.mutating = 0
        /\ git.branch = git.start.branch
        /\ git.branches = git.start.branches
        /\ git.changed = git.start.changed
        /\ git.commits = git.start.commits

\* a diff of two files was refused because the tree was dirty
C21_Witness ==
    /\ git.pc = "done" /\ git.start.dirty
    /\ Len(git.todo) = 2
    /\ git.result.message = "Working tree has uncommitted changes."

\* C22: a call of applySessionDiff in which at least one file diff failed has
\* returned success=false with conflictFiles holding exactly the failing
\* paths, has made no commit, and has left the repository on the side branch
\* of the session: the branch that was active before has no new commit.
C22_PartialFailureOnSideBranch ==
    (git.pc = "done" /\ FailedPaths # {}) =>
        /\ ~git.result.success
        /\ SetOf(git.result.conflictFiles) = FailedPaths
        /\ git.commits = git.start.commits
        /\ git.branch = TempBranch(git.sessionId)
        /\ git.branch # git.start.branch
        /\ git.branch \notin git.start.branches

\* of two file diffs one was applied and the other failed
C22_Witness ==
    /\ git.pc = "done"
    /\ Len(git.log) = 2
    /\ Cardinality(FailedPaths) = 1
    /\ git.changed \ FailedPaths # {}
    /\ Len(git.result.conflictFiles) = 1

\* both file diffs of a call failed, on different paths
C22_WitnessBoth ==
    /\ git.pc = "done"
    /\ Cardinality(FailedPaths) = 2
    /\ Len(git.result.conflictFiles) = 2

\* ------------------------------------------------------------ JulesPanel
\* the caller recorded for the client operations the panel starts
PanelCaller == 0 - 1

\* the handle setInterval returns: one no live interval has
NewTimer(p) == CHOOSE t \in 1..(Cardinality(p.timers) + 1) : t \notin p.timers

\* _startPolling that creates an interval whether or not one is held
_startPolling_unguarded(p) ==
    [p EXCEPT !.pollingInterval = NewTimer(p), !.timers = @ \cup {NewTimer(p)}]

\* _startPolling: returns when an interval is held, creates one otherwise
_startPolling(p) ==
    IF p.pollingInterval # 0 THEN p
    ELSE [p EXCEPT !.pollingInterval = NewTimer(p), !.timers = @ \cup {NewTimer(p)}]

\* _stopPolling: clears the interval the panel holds
_stopPolling(p) ==
    IF p.pollingInterval # 0
    THEN [p EXCEPT !.timers = @ \ {p.pollingInterval}, !.pollingInterval = 0]
    ELSE p

\* the client operations of the panel's refreshes that are in flight:
\* getActiveSessions and the getThoughtSignatures that follow it
Refreshes ==
    {c \in DOMAIN calls : calls[c].caller = PanelCaller
                          /\ calls[c].op \in {"list", "signatures"}}

\* _refreshSessions up to its network suspension: getActiveSessions reads
\* the credential and sends GET /sessions; without a credential getApiKey
\* throws and the catch posts the error
RefreshStart ==
    /\ nCalls' = nCalls + 1
    /\ calls' = IF apiKey THEN calls @@ (nCalls + 1 :> NewCall("list", PanelCaller))
                ELSE calls

\* _startPolling as a handler runs it: the interval and, when one was
\* created, the initial refresh
StartPolling ==
    LET p == _startPolling(panel) IN
    IF p.timers # panel.timers
    THEN /\ nCalls < MaxCalls
         /\ panel' = [p EXCEPT !.view = "visible", !.last = "started"]
         /\ RefreshStart
    ELSE /\ panel' = [p EXCEPT !.view = "visible", !.last = "kept"]
         /\ UNCHANGED <<calls, nCalls>>

\* resolveWebviewView: the view is kept, the listeners are registered and
\* polling starts
ResolveWebviewView ==
    /\ panel.view \in {"none", "disposed"}
    /\ StartPolling
    /\ UNCHANGED <<apiKey, activeSessions, remote, clock, returned, posts, reported,
                   created>>
    /\ UNCHANGED <<bridgeVars, git>>

\* onDidChangeVisibility: polling starts when the view is visible and stops
\* when it is not; the event may repeat the visibility the view has
VisibilityChange(visible) ==
    /\ panel.view \in {"visible", "hidden"}
    /\ IF visible
       THEN StartPolling
       ELSE /\ panel' = [_stopPolling(panel) EXCEPT !.view = "hidden", !.last = "stop"]
            /\ UNCHANGED <<calls, nCalls>>
    /\ UNCHANGED <<apiKey, activeSessions, remote, clock, returned, posts, reported,
                   created>>
    /\ UNCHANGED <<bridgeVars, git>>

\* onDidDispose of the view: polling stops and the listeners are disposed
ViewDispose ==
    /\ panel.view \in {"visible", "hidden"}
    /\ panel' = [_stopPolling(panel) EXCEPT !.view = "disposed", !.last = "stop"]
    /\ UNCHANGED <<clientVars, bridgeVars, git>>

\* dispose() of the panel: polling stops; the visibility listener of the
\* view is not among the disposables and stays registered
Dispose ==
    /\ panel.view # "none"
    /\ panel.last # "dispose"
    /\ panel' = [_stopPolling(panel) EXCEPT !.last = "dispose"]
    /\ UNCHANGED <<clientVars, bridgeVars, git>>

\* the interval t fires: its callback calls _refreshSessions
PanelTick(t) ==
    /\ t \in panel.timers
    /\ nCalls < MaxCalls
    /\ RefreshStart
    /\ UNCHANGED <<apiKey, activeSessions, remote, clock, returned, posts, reported,
                   created>>
    /\ UNCHANGED <<bridgeVars, hostVars>>

\* getActiveSessions of a refresh completes: the snapshot is merged and
\* _getThoughtSignatures starts on the sessions returned, one after the
\* other; with no session, or when listSessions threw, the message is posted
PanelListComplete(c) ==
    /\ c \in DOMAIN calls
    /\ calls[c].caller = PanelCaller
    /\ calls[c].op = "list" /\ calls[c].pc = "resp"
    /\ activeSessions' = listSessions(activeSessions, calls[c].resp)
    /\ IF calls[c].resp.kind = "ok"
       THEN reported' = reported \cup IdsOf(calls[c].resp.sessions)
       ELSE UNCHANGED reported
    /\ IF calls[c].resp.kind = "ok" /\ calls[c].resp.sessions # <<>>
       THEN /\ calls' = [calls EXCEPT ![c].op = "signatures", ![c].pc = "fetch",
                                      ![c].attempt = Len(calls[c].resp.sessions)]
            /\ UNCHANGED panel
       ELSE /\ calls' = Without(c)
            /\ panel' = IF calls[c].resp.kind = "ok"
                        THEN [panel EXCEPT !.shown = {}] ELSE panel
    /\ UNCHANGED <<apiKey, remote, clock, nCalls, returned, posts, created>>
    /\ UNCHANGED <<bridgeVars, git>>

\* getThoughtSignatures of one session of a refresh returns or throws (the
\* loop catches it); after the last one sessionsUpdated is posted with the
\* sessions getActiveSessions returned.  `attempt` counts the sessions left.
PanelSignature(c) ==
    /\ c \in DOMAIN calls
    /\ calls[c].caller = PanelCaller
    /\ calls[c].op = "signatures"
    /\ IF calls[c].attempt > 1
       THEN /\ calls' = [calls EXCEPT ![c].attempt = @ - 1]
            /\ UNCHANGED panel
       ELSE /\ calls' = Without(c)
            /\ panel' = [panel EXCEPT !.shown = IdsOf(calls[c].resp.sessions)]
    /\ UNCHANGED <<apiKey, activeSessions, remote, clock, nCalls, returned, posts,
                   reported, created>>
    /\ UNCHANGED <<bridgeVars, git>>

\* the panel while its view comes and goes: polling and its refreshes
PollNext ==
    \/ ResolveWebviewView
    \/ \E visible \in BOOLEAN : VisibilityChange(visible)
    \/ ViewDispose
    \/ Dispose
    \/ \E t \in panel.timers : PanelTick(t)
    \/ \E c \in DOMAIN calls : RemoteList(c)
    \/ \E c \in DOMAIN calls : PanelListComplete(c)
    \/ \E c \in DOMAIN calls : PanelSignature(c)

PollSpec == Init /\ [][PollNext]_vars

\* C30: at every moment the panel has at most one active polling timer, the
\* one it holds: repeated visibility changes and repeated _startPolling calls
\* create no second one, and after _stopPolling or dispose() none remains
C30_AtMostOneTimer ==
    /\ Cardinality(panel.timers) <= 1
    /\ panel.timers = IF panel.pollingInterval = 0 THEN {} ELSE {panel.pollingInterval}
    /\ panel.last \in {"stop", "dispose"} => panel.timers = {}

\* _startPolling ran again while an interval was held
C30_Witness == panel.last = "kept" /\ Cardinality(panel.timers) = 1

\* polling was started a second time after a stop, and stopped again
C30_WitnessStopped ==
    /\ panel.last \in {"stop", "dispose"}
    /\ nCalls = 2 /\ Refreshes = DOMAIN calls /\ Cardinality(Refreshes) = 2
    /\ panel.timers = {}

\* C24: two refreshes never run concurrently against the same cache: at most
\* one refresh of the panel is in flight at any time
C24_OneRefreshInFlight == Cardinality(Refreshes) <= 1

\* ------------------------------------------------- the task of the panel
\* _createSession(missionBrief) up to the network suspension of
\* createSession: the context is gathered, the repository of the workspace
\* is taken from it and POST /sessions is sent; without a credential
\* getApiKey throws and the catch posts the error
PanelCreateStart(source, stage) ==
    /\ panel.attempts < MaxAttempts
    /\ nCalls' = nCalls + 1
    /\ IF apiKey
       THEN /\ calls' = calls @@ (nCalls + 1 :> NewCreate(PanelCaller, source))
            /\ posts' = posts + 1
            /\ panel' = [panel EXCEPT !.stage = stage, !.attempts = @ + 1]
       ELSE /\ panel' = [panel EXCEPT !.stage = "failed", !.attempts = @ + 1]
            /\ UNCHANGED <<calls, posts>>
    /\ UNCHANGED <<apiKey, activeSessions, remote, clock, returned, reported, created>>
    /\ UNCHANGED <<bridgeVars, git>>

\* the createSession message of the webview: the user submits a task
SubmitTask ==
    /\ panel.view = "visible"
    /\ panel.stage = "idle"
    /\ PanelCreateStart(WorkspaceSource, "creating")

\* the checkRepoAccess message of the setup wizard: _checkRepoAccess creates
\* a session in the repository to test the access to it
WizardCheck ==
    /\ panel.stage = "wizard"
    /\ PanelCreateStart(WorkspaceSource, "checking")

\* the timer _checkRepoAccess set after a granted access fires:
\* _createSession(pendingTask)
ResumeTask ==
    /\ panel.stage = "resuming"
    /\ PanelCreateStart(WorkspaceSource, "creating")

\* where the task is after a createSession of the panel threw err
AfterCreateError(err) ==
    IF err.type = "ProjectNotInitializedError" THEN "wizard" ELSE "failed"

\* createSession of the panel completes.  In _createSession a session that
\* was created is posted and _refreshSessions is awaited; in _checkRepoAccess
\* it grants the access and the pending task is resumed by a timer.  A
\* ProjectNotInitializedError shows the setup wizard (again).
PanelCreateComplete(c) ==
    /\ c \in DOMAIN calls
    /\ calls[c].caller = PanelCaller
    /\ calls[c].op = "create" /\ calls[c].pc = "resp"
    /\ IF calls[c].resp.kind = "ok"
       THEN /\ activeSessions' = addSession(activeSessions,
                   [id |-> calls[c].resp.id, status |-> "pending", createdAt |-> clock])
            /\ created' = created \cup {calls[c].resp.id}
            /\ panel' = [panel EXCEPT
                            !.sessions = @ \cup {calls[c].resp.id},
                            !.stage = IF @ = "checking" THEN "resuming" ELSE "done"]
            /\ IF panel.stage = "creating" /\ apiKey
               THEN /\ calls' = Without(c) @@ (nCalls + 1 :> NewCall("list", PanelCaller))
                    /\ nCalls' = nCalls + 1
               ELSE /\ calls' = Without(c)
                    /\ UNCHANGED nCalls
       ELSE /\ calls' = Without(c)
            /\ panel' = [panel EXCEPT !.stage =
                            AfterCreateError(CreateError(calls[c].resp, calls[c].arg))]
            /\ UNCHANGED <<activeSessions, created, nCalls>>
    /\ UNCHANGED <<apiKey, remote, clock, returned, posts, reported>>
    /\ UNCHANGED <<bridgeVars, git>>

\* the panel handling one task of the user, with the setup wizard
WizardNext ==
    \/ ResolveWebviewView
    \/ SubmitTask
    \/ WizardCheck
    \/ ResumeTask
    \/ \E c \in DOMAIN calls : RemoteCreateOk(c)
    \/ \E c \in DOMAIN calls : RemoteCreateFail(c)
    \/ \E c \in DOMAIN calls : PanelCreateComplete(c)
    \/ \E c \in DOMAIN calls : RemoteList(c)
    \/ \E c \in DOMAIN calls : PanelListComplete(c)
    \/ \E c \in DOMAIN calls : PanelSignature(c)

WizardSpec == Init /\ [][WizardNext]_vars

\* C27: for one task the user submits through the panel, at most one session
\* is created on the remote, also when the setup wizard re-checks the access
\* to the repository and the pending task is resumed
C27_OneSessionPerTask == Cardinality(panel.sessions) <= 1

====
